---- MODULE Spec2Model ----
(***************************************************************************)
(* ReconX scan orchestration: the task queue worker (api/tasks.py), the    *)
(* stage engine (core/scanner_engine.py), the checkpoint store             *)
(* (core/state_checkpoint.py), the scan rows of the database               *)
(* (api/database.py), the control-surface handlers (api/main.py), the      *)
(* resilience monitor (api/resilience_manager.py), the process supervisor  *)
(* (core/subprocess_manager.py), the tool registry (core/tool_manager.py)  *)
(* the system_state table (api/database.py) and the LLM model manager      *)
(* (api/llm_integration.py).                                               *)
(*                                                                         *)
(* The program is one asyncio event loop: a step of the model is the code  *)
(* a coroutine runs between two suspension points, or a whole request      *)
(* handler.                                                                *)
(***************************************************************************)
EXTENDS Integers, Sequences, FiniteSets, TLC

\* ---- bounds of the model ------------------------------------------------
NumScans == 2        \* scan ids are 1..NumScans
NumStages == 2       \* the engine runs the first NumStages stages of the order
MaxTime == 50        \* the clock stops advancing here (seconds)
MaxRestarts == 1     \* process kills followed by a restart
MaxRequests == 2     \* control-surface requests served per process lifetime
NumRuns == 2         \* calls of SubprocessManager.run / run_simple
MaxLines == 2        \* lines a child writes to its stdout at most
NumCallers == 2      \* coroutines calling ToolManager.ensure_tool
MaxCalls == 2        \* ensure_tool calls per caller

\* ---- program constants --------------------------------------------------
check_interval == 10
pause_threshold == 30
resume_delay == 10

Scans == 1..NumScans
NoTask == 0          \* Python None for Optional[ScanTask]
NoTime == -1         \* SQL NULL / Python None for a timestamp

ALL_MODULES ==
    << "subdomain_enum", "dns_resolution", "http_probe", "port_scan",
       "wayback_urls", "js_analysis", "gf_patterns", "fuzzing", "nuclei_scan" >>

MODULE_ORDER == SubSeq(ALL_MODULES, 1, NumStages)

StoppedByUserMsg == "Stopped by user"

VARIABLES
    \* TaskQueue
    queue,              \* asyncio.Queue of scan ids (FIFO)
    task_status,        \* ScanTask.status per scan id, "none" = no task object
    stop_on_error,      \* ScanTask.config.get("stop_on_error", False)
    active_tasks,       \* keys of TaskQueue.active_tasks
    paused_tasks,       \* keys of TaskQueue.paused_tasks
    current_task,       \* TaskQueue._current_task (scan id or NoTask)
    pause_event,        \* TaskQueue._pause_event.is_set()
    \* the worker coroutine process_loop / _execute_task / engine.run
    wpc,                \* position of the worker
    wtask,              \* local variable task of process_loop
    eng_paused,         \* ScannerEngine._paused
    eng_stopped,        \* ScannerEngine._stopped
    eng_i,              \* loop index i of ScannerEngine.run (0-based)
    results_cache,      \* ScannerEngine.results_cache: module name -> result
    \* scan rows of the database
    row_status,         \* scans.status, "none" = no row
    row_started,        \* scans.started_at IS NOT NULL (only ever tested for NULL)
    row_completed_at,   \* scans.completed_at
    row_error,          \* scans.error_message ("" = NULL)
    row_checkpoint,     \* scans.checkpoint_data: <<>> or <<checkpoint>>
    \* checkpoint files data/state/<scan_id>.json: <<>> or <<checkpoint>>
    state_file,
    \* ResilienceManager
    offline_since,      \* _offline_since (NoTime = None)
    was_paused_by_outage,
    mpc,                \* position of monitor_loop
    mon_wake,           \* instant at which the monitor's sleep ends
    h_probe,            \* result of the probe of the monitor's latest tick
                        \* ("none" before the first), read by properties
    \* environment
    now,                \* wall clock, seconds
    restarts,           \* process restarts so far
    requests,           \* control-surface requests served in this lifetime
    \* history of the run, read only by the properties
    h_stopped,          \* scans for which stop(scanId) hit the executing scan
    h_pause_pending,    \* executing scans with a pause and no resume/stop since
    h_user_paused,      \* scans paused by the user and not resumed by the user
    h_outage_paused,    \* scans that were executing when the outage pause hit
    h_outage_resumed,   \* ... and for which the automatic resume has run
    h_loaded,           \* checkpoint on disk when engine.run started
    h_in_exec,          \* scans whose _execute_task was entered and not left
    h_in_stage          \* <<scan, index>> of stages entered and not ended

VARIABLES
    subdomains,         \* subdomains table: rows per << scan_id, subdomain >>
    \* history, read by properties only
    h_offline_run,      \* time of the first probe of the current unbroken
                        \* run of failed probes, NoTime after a good probe
    h_outage_pauses,    \* _auto_pause calls since the last _auto_resume
    h_system_paused,    \* trigger_pause or _auto_pause ran, and neither
                        \* trigger_resume nor _auto_resume since
    h_stopped_queued,   \* scans for which stop was requested while queued
    h_after_stop        \* engine calls made after the engine's stop()

tqvars == << queue, task_status, stop_on_error, active_tasks, paused_tasks,
             current_task, pause_event >>
wvars == << wpc, wtask, eng_paused, eng_stopped, eng_i, results_cache >>
rowvars == << row_status, row_started, row_completed_at, row_error,
              row_checkpoint >>
monvars == << offline_since, was_paused_by_outage, mpc, mon_wake,
              h_probe >>
envvars == << now, restarts, requests >>
hctl == << h_stopped, h_pause_pending, h_user_paused, h_outage_paused,
           h_outage_resumed, h_loaded >>
hexec == << h_in_exec, h_in_stage >>
hsys == << h_offline_run, h_outage_pauses, h_system_paused,
           h_stopped_queued, h_after_stop >>
hvars == << hctl, hexec, hsys >>


Runs == 1..NumRuns
Callers == 1..NumCallers
Tools == {"naabu", "nmap"}

VARIABLES
    \* SubprocessManager (core/subprocess_manager.py)
    sp_paused,          \* SubprocessManager._paused
    sp_stopped,         \* SubprocessManager._stopped
    active_processes,   \* keys of active_processes (runs given a task_id)
    run_pc,             \* position of each call of run
    run_api,            \* "run" or "run_simple": the method the caller used
    child,              \* state of the child process of each run
    signals,            \* signals sent to the child, in order
    stdout_lines,       \* local stdout_lines of run: lines read so far
    returned,           \* <<>> or << what the caller got back >>
    h_outcome,          \* how each run ended (history, read by properties)
    \* ToolManager (core/tool_manager.py)
    installed_tools,    \* keys of installed_tools (every value stored is True)
    on_path,            \* shutil.which finds the tool's binary
    ens_pc,             \* position of each caller inside ensure_tool
    ens_tool,           \* tool_name of the caller's latest ensure_tool call
    ens_result,         \* what that call returned ("none" while pending)
    ens_calls,          \* ensure_tool calls made by each caller
    h_probes,           \* check_tool calls made by ensure_tool, per tool
    h_installs,         \* install commands started, per tool
    h_ok                \* tools for which a probe or an install succeeded

spvars == << sp_paused, sp_stopped, active_processes, run_pc, run_api, child,
             signals, stdout_lines, returned, h_outcome >>
tmvars == << installed_tools, on_path, ens_pc, ens_tool, ens_result,
             ens_calls, h_probes, h_installs, h_ok >>

Null == "NULL"         \* SQL NULL / Python None in a text column
Absent == "absent"     \* the key is not in the state_data dict

VARIABLES
    \* system_state table and the calls of update_system_state
    system_state,       \* the rows of the table, in rowid order
    us_pc,              \* position of each caller inside update_system_state
    us_data,            \* state_data of the caller's latest call
    us_existing,        \* the caller's local `existing`: <<>> or << id >>
    us_calls,           \* update_system_state calls made by each caller
    h_alone,            \* no other call overlapped the caller's latest call
    h_prev              \* <<>> or << state_data, alone >> of the call that
                        \* completed last

uscalls == << us_pc, us_data, us_existing, us_calls, h_alone, h_prev >>
sysvars == << system_state, uscalls >>

\* LLMManager._memory_thresholds: MB of free memory each model needs
Models == {"llama3.1:8b", "gemma3:4b", "gemma3:1b"}
NoModel == "None"      \* Python None for current_model

VARIABLES
    \* LLMManager (api/llm_integration.py)
    current_model,      \* LLMManager.current_model
    is_loaded,          \* LLMManager.is_loaded
    llm_pc,             \* position of each caller inside load_model
    llm_model,          \* model_name of the caller's latest load_model
    llm_ret,            \* what the caller's latest call returned
    llm_calls,          \* switch_model / auto_scale calls made by a caller
    h_free,             \* free memory the caller's latest auto_scale read
    h_loads,            \* load_model calls started, per model
    h_unloads           \* unload_model calls that unloaded a model

llmvars == << current_model, is_loaded, llm_pc, llm_model, llm_ret, llm_calls,
              h_free, h_loads, h_unloads >>
compvars == << spvars, tmvars, sysvars, llmvars >>
corevars == << tqvars, wvars, rowvars, subdomains, state_file, monvars, envvars,
              hvars >>
vars == << corevars, compvars >>

\* ---- checkpoint store (core/state_checkpoint.py) --------------------------

\* hashlib.sha256(json.dumps(data, sort_keys=True)).hexdigest()[:16]: the
\* digest is a function of the content hashed, and distinct contents are
\* taken to have distinct digests.
GenerateChecksum(data) == << "sha256_16", data >>

\* Values of the JSON types are stored as they are, anything else as str().
JsonValues == {"result"}

SerializeResults(results) ==
    [k \in DOMAIN results |->
        IF results[k] \in JsonValues THEN results[k] ELSE << "str", results[k] >>]

\* The dict save_state builds; its checksum is taken over results_cache.
\* (The timestamp field is left out: nothing reads it.)
MakeCheckpoint(s, module, completed, pending, results) ==
    [ scan_id |-> s,
      current_module |-> module,
      completed_modules |-> completed,
      pending_modules |-> pending,
      module_state |-> << >>,
      results_cache |-> SerializeResults(results),
      checksum |-> GenerateChecksum(results) ]

\* Recomputes the digest over the state with the checksum field removed.
VerifyChecksum(state) ==
    LET data == [k \in (DOMAIN state) \ {"checksum"} |-> state[k]]
    IN  state.checksum = GenerateChecksum(data)

DeserializeResults(state) ==
    [ can_resume |-> TRUE,
      current_module |-> state.current_module,
      completed_modules |-> state.completed_modules,
      pending_modules |-> state.pending_modules,
      module_state |-> state.module_state,
      results_cache |-> state.results_cache ]

\* Content of a state file that json.load rejects (arbitrary bytes); it has
\* none of the fields of a checkpoint.
NotJson == [ bytes |-> "not json" ]

\* json.load succeeded and _verify_checksum accepted what it returned; a
\* failing json.load is caught and logged inside load_state.
Verifies(content) == content # NotJson /\ VerifyChecksum(content)

\* load_state returning whatever parses, the digest never compared.
LoadFrom_NoVerify(file, blob) ==
    IF file # << >> /\ file[1] # NotJson
    THEN << DeserializeResults(file[1]) >>
    ELSE IF blob # << >> /\ blob[1] # NotJson
         THEN << DeserializeResults(blob[1]) >>
         ELSE << >>

\* load_state over a file content and a row blob: <<>> is Python None.
LoadFrom(file, blob) ==
    IF file # << >> /\ Verifies(file[1])
    THEN << DeserializeResults(file[1]) >>
    ELSE IF blob # << >> /\ Verifies(blob[1])
         THEN << DeserializeResults(blob[1]) >>
         ELSE << >>

LoadState(s) ==
    LoadFrom(state_file[s],
             IF row_status[s] = "none" THEN << >> ELSE row_checkpoint[s])

\* ---- stage engine helpers (core/scanner_engine.py) ------------------------

\* MODULE_ORDER.index(name), 0-based; 0 when the name is not in the list.
GetModuleIndex(name) ==
    IF \E k \in 1..Len(MODULE_ORDER) : MODULE_ORDER[k] = name
    THEN (CHOOSE k \in 1..Len(MODULE_ORDER) : MODULE_ORDER[k] = name) - 1
    ELSE 0

\* The stage the loop of run is at (1-based position eng_i + 1).
ModuleAt(i) == MODULE_ORDER[i + 1]

\* ---- scan rows (api/database.py) -------------------------------------------

\* Keyword parameters update_scan_status declares besides scan_id and status.
UpdateScanStatusKeywords == {"current_task", "progress"}

\* A call with a keyword the function does not declare raises TypeError
\* before anything is written.
AcceptsKeywords(kw) == kw \subseteq UpdateScanStatusKeywords

\* update_scan_status(scan_id, status) for every scan_id in S, in one step.
\* UPDATE ... WHERE id = ? changes nothing when there is no such row.
UpdateScanStatus(S, status) ==
    LET hit == {s \in S : row_status[s] # "none"}
    IN  /\ row_status' = [s \in Scans |->
                            IF s \in hit THEN status ELSE row_status[s]]
        /\ row_started' = [s \in Scans |->
                            IF s \in hit /\ status = "running"
                                         /\ ~row_started[s]
                            THEN TRUE ELSE row_started[s]]
        /\ row_completed_at' = [s \in Scans |->
                            IF s \in hit /\ status \in {"completed", "failed"}
                            THEN now ELSE row_completed_at[s]]
        /\ UNCHANGED row_error

\* ---- TaskQueue operations (api/tasks.py), as next-state relations ---------

\* pause_task for every scan id in S.
PauseTasks(S) ==
    LET T == S \cap active_tasks
    IN  /\ task_status' = [s \in Scans |->
                             IF s \in T THEN "paused" ELSE task_status[s]]
        /\ paused_tasks' = paused_tasks \cup T
        /\ pause_event' = IF current_task # NoTask /\ current_task \in T
                          THEN FALSE ELSE pause_event
        /\ UNCHANGED << queue, stop_on_error, active_tasks, current_task >>

\* resume_task for every scan id in S.
ResumeTasks(S) ==
    LET T == S \cap paused_tasks
    IN  /\ task_status' = [s \in Scans |->
                             IF s \in T THEN "running" ELSE task_status[s]]
        /\ paused_tasks' = paused_tasks \ T
        /\ active_tasks' = active_tasks \cup T
        /\ pause_event' = IF T # {} THEN TRUE ELSE pause_event
        /\ UNCHANGED << queue, stop_on_error, current_task >>

StopTask(s) ==
    /\ task_status' = IF s \in active_tasks
                      THEN [task_status EXCEPT ![s] = "cancelled"]
                      ELSE task_status
    /\ current_task' = IF s \in active_tasks /\ current_task = s
                       THEN NoTask ELSE current_task
    /\ UNCHANGED << queue, stop_on_error, active_tasks, paused_tasks,
                    pause_event >>

\* The scan the worker is inside _execute_task for, or NoTask.
Executing == IF wpc \in {"loop", "get"} THEN NoTask ELSE wtask

\* ---- subdomains table (api/database.py) --------------------------------------
\* The hostnames subdomain_enum can discover for a target.
Hostnames == {"a.example.com"}

\* What a run of subdomain_enum comes back with: the passive sources answer
\* from the target's public records, the same on every run.
Found == {Hostnames}

\* add_subdomain: a plain INSERT; id is subdomain_data.get('id'), which the
\* enumerator's to_dict never sets, and the table has no key on
\* (scan_id, subdomain), so the row is always added.
AddSubdomain(rows, s, hostname) ==
    [rows EXCEPT ![<< s, hostname >>] = @ + 1]

\* SubdomainEnumerator._save_results: add_subdomain for every result found.
SaveResults(rows, s, found) ==
    [k \in DOMAIN rows |->
        IF k[1] = s /\ k[2] \in found THEN AddSubdomain(rows, s, k[2])[k]
        ELSE rows[k]]

\* ---- system_state table (api/database.py) ----------------------------------
\* The state_data dicts the callers in api/ pass: none of them has an "id"
\* key, network_status and tunnel_url may be missing.
StateData ==
    [ id : {Absent}, network_status : {Absent, "online", "offline"},
      tunnel_url : {Absent, "url"} ]

NoStateData == [ id |-> Absent, network_status |-> Absent,
                 tunnel_url |-> Absent ]

\* dict.get(key, default)
Get(d, default) == IF d = Absent THEN default ELSE d

\* The column values both statements bind from state_data.
BoundValues(state_data) ==
    [ network_status |-> Get(state_data.network_status, "online"),
      tunnel_url |-> Get(state_data.tunnel_url, Null) ]

\* SQL `a = b`: never true when either side is NULL.
SqlEq(a, b) == a # Null /\ b # Null /\ a = b

\* UPDATE system_state SET ... WHERE id = ?
UpdateWhereId(rows, id, values) ==
    [k \in 1..Len(rows) |->
        IF SqlEq(rows[k].id, id)
        THEN [ id |-> rows[k].id, network_status |-> values.network_status,
               tunnel_url |-> values.tunnel_url ]
        ELSE rows[k]]

\* INSERT INTO system_state (id, ...): a TEXT PRIMARY KEY column of a rowid
\* table takes NULL, any number of times; a repeated non-NULL id is refused.
InsertRow(rows, id, values) ==
    IF \E k \in 1..Len(rows) : SqlEq(rows[k].id, id)
    THEN rows
    ELSE Append(rows, [ id |-> id, network_status |-> values.network_status,
                        tunnel_url |-> values.tunnel_url ])

\* A whole call of update_system_state that no other call overlaps.
UpsertSystemState(rows, state_data) ==
    IF rows = << >>
    THEN InsertRow(rows, Get(state_data.id, Null), BoundValues(state_data))
    ELSE UpdateWhereId(rows, rows[1].id, BoundValues(state_data))

\* get_system_state: SELECT * ... ORDER BY updated_at DESC LIMIT 1. No UPDATE
\* ever matches a row whose id is NULL, so updated_at is the time of the
\* INSERT and the newest row is the one inserted last.
GetSystemState(rows) ==
    IF rows = << >> THEN << >> ELSE << rows[Len(rows)] >>

\* The dict monitor_loop, _auto_pause and _auto_resume pass (last_seen and
\* pause_reason are keys the statements do not bind).
NetworkStatusData(status) ==
    [ id |-> Absent, network_status |-> status, tunnel_url |-> Absent ]

\* ---- initial state: a freshly started process, empty database -------------

Init ==
    /\ queue = << >>
    /\ task_status = [s \in Scans |-> "none"]
    /\ stop_on_error = [s \in Scans |-> FALSE]
    /\ active_tasks = {}
    /\ paused_tasks = {}
    /\ current_task = NoTask
    /\ pause_event = TRUE
    /\ wpc = "loop"
    /\ wtask = NoTask
    /\ eng_paused = FALSE
    /\ eng_stopped = FALSE
    /\ eng_i = 0
    /\ results_cache = << >>
    /\ row_status = [s \in Scans |-> "none"]
    /\ row_started = [s \in Scans |-> FALSE]
    /\ row_completed_at = [s \in Scans |-> NoTime]
    /\ row_error = [s \in Scans |-> ""]
    /\ row_checkpoint = [s \in Scans |-> << >>]
    /\ state_file = [s \in Scans |-> << >>]
    /\ offline_since = NoTime
    /\ was_paused_by_outage = FALSE
    /\ mpc = "probe"
    /\ mon_wake = 0
    /\ h_probe = "none"
    /\ now = 0
    /\ restarts = 0
    /\ requests = 0
    /\ h_stopped = {}
    /\ h_pause_pending = {}
    /\ h_user_paused = {}
    /\ h_outage_paused = {}
    /\ h_outage_resumed = {}
    /\ h_loaded = << >>
    /\ h_in_exec = {}
    /\ h_in_stage = {}
    /\ sp_paused = FALSE
    /\ sp_stopped = FALSE
    /\ active_processes = {}
    /\ run_pc = [r \in Runs |-> "idle"]
    /\ run_api = [r \in Runs |-> "run"]
    /\ child = [r \in Runs |-> "none"]
    /\ signals = [r \in Runs |-> << >>]
    /\ stdout_lines = [r \in Runs |-> << >>]
    /\ returned = [r \in Runs |-> << >>]
    /\ h_outcome = [r \in Runs |-> "none"]
    /\ installed_tools = {}
    /\ on_path = [t \in Tools |-> FALSE]
    /\ ens_pc = [c \in Callers |-> "idle"]
    /\ ens_tool = [c \in Callers |-> "none"]
    /\ ens_result = [c \in Callers |-> "none"]
    /\ ens_calls = [c \in Callers |-> 0]
    /\ h_probes = [t \in Tools |-> 0]
    /\ h_installs = [t \in Tools |-> 0]
    /\ h_ok = {}
    /\ system_state = << >>
    /\ subdomains = [k \in Scans \X Hostnames |-> 0]
    /\ h_offline_run = NoTime
    /\ h_outage_pauses = 0
    /\ h_system_paused = FALSE
    /\ h_stopped_queued = {}
    /\ h_after_stop = {}
    /\ us_pc = [c \in Callers |-> "idle"]
    /\ us_data = [c \in Callers |-> NoStateData]
    /\ us_existing = [c \in Callers |-> << >>]
    /\ us_calls = [c \in Callers |-> 0]
    /\ h_alone = [c \in Callers |-> TRUE]
    /\ h_prev = << >>
    /\ current_model = NoModel
    /\ is_loaded = FALSE
    /\ llm_pc = [c \in Callers |-> "idle"]
    /\ llm_model = [c \in Callers |-> NoModel]
    /\ llm_ret = [c \in Callers |-> "none"]
    /\ llm_calls = [c \in Callers |-> 0]
    /\ h_free = [c \in Callers |-> NoTime]
    /\ h_loads = [m \in Models |-> 0]
    /\ h_unloads = 0

\* ---- control surface (api/main.py) -----------------------------------------

\* POST /api/scans: db.create_scan inserts the row (status pending), then
\* add_task puts the task on the queue and into the active map and writes
\* status pending. After a restart the same call path re-enqueues a scan whose
\* row exists. A scan id is submitted once per process lifetime.
AddTask(s, soe) ==
    /\ task_status[s] = "none"
    /\ queue' = Append(queue, s)
    /\ task_status' = [task_status EXCEPT ![s] = "pending"]
    /\ stop_on_error' = [stop_on_error EXCEPT ![s] = soe]
    /\ active_tasks' = active_tasks \cup {s}
    /\ row_status' = [row_status EXCEPT ![s] = "pending"]
    /\ UNCHANGED << paused_tasks, current_task, pause_event, wvars,
                    row_started, row_completed_at, row_error,
                    row_checkpoint, state_file, monvars, envvars, hvars >>
    /\ UNCHANGED << subdomains, compvars >>

\* POST /api/scans/{scan_id}/pause
PauseScan(s) ==
    /\ requests < MaxRequests
    /\ requests' = requests + 1
    /\ PauseTasks({s})
    /\ UpdateScanStatus({s}, "paused")
    /\ h_pause_pending' = IF s \in active_tasks /\ Executing = s
                          THEN h_pause_pending \cup {s} ELSE h_pause_pending
    /\ h_user_paused' = IF s \in active_tasks
                        THEN h_user_paused \cup {s} ELSE h_user_paused
    /\ UNCHANGED << wvars, row_checkpoint, state_file, monvars, now, restarts,
                    h_stopped, h_outage_paused, h_outage_resumed, h_loaded, hexec >>
    /\ UNCHANGED << subdomains, hsys, compvars >>

\* POST /api/scans/{scan_id}/resume
ResumeScan(s) ==
    /\ requests < MaxRequests
    /\ requests' = requests + 1
    /\ ResumeTasks({s})
    /\ UpdateScanStatus({s}, "running")
    /\ h_pause_pending' = h_pause_pending \ {s}
    /\ h_user_paused' = h_user_paused \ {s}
    /\ UNCHANGED << wvars, row_checkpoint, state_file, monvars, now, restarts,
                    h_stopped, h_outage_paused, h_outage_resumed, h_loaded, hexec >>
    /\ UNCHANGED << subdomains, hsys, compvars >>

\* POST /api/scans/{scan_id}/stop: stop_task, then update_scan_status called
\* with error_message=..., which raises when the keyword is not declared.
StopScan(s) ==
    /\ requests < MaxRequests
    /\ requests' = requests + 1
    /\ StopTask(s)
    /\ IF AcceptsKeywords({"error_message"})
       THEN UpdateScanStatus({s}, "failed")
       ELSE UNCHANGED << row_status, row_started, row_completed_at,
                         row_error >>
    /\ h_stopped' = IF s \in active_tasks /\ Executing = s
                    THEN h_stopped \cup {s} ELSE h_stopped
    /\ h_pause_pending' = h_pause_pending \ {s}
    /\ h_stopped_queued' = IF \E k \in 1..Len(queue) : queue[k] = s
                           THEN h_stopped_queued \cup {s}
                           ELSE h_stopped_queued
    /\ UNCHANGED << wvars, row_checkpoint, state_file, monvars, now, restarts,
                    h_user_paused, h_outage_paused, h_outage_resumed,
                    h_loaded, hexec, h_offline_run, h_outage_pauses,
                    h_system_paused, h_after_stop >>
    /\ UNCHANGED << subdomains, compvars >>

\* POST /api/system/pause -> ResilienceManager.trigger_pause
SystemPause ==
    /\ requests < MaxRequests
    /\ requests' = requests + 1
    /\ PauseTasks(active_tasks)
    /\ h_pause_pending' = IF Executing # NoTask /\ Executing \in active_tasks
                          THEN h_pause_pending \cup {Executing}
                          ELSE h_pause_pending
    /\ h_system_paused' = TRUE
    /\ UNCHANGED << wvars, rowvars, state_file, monvars, now, restarts,
                    h_stopped, h_user_paused, h_outage_paused,
                    h_outage_resumed, h_loaded, hexec, h_offline_run,
                    h_outage_pauses, h_stopped_queued,
                    h_after_stop >>
    /\ UNCHANGED << subdomains, compvars >>

\* POST /api/system/resume -> ResilienceManager.trigger_resume
SystemResume ==
    /\ requests < MaxRequests
    /\ requests' = requests + 1
    /\ ResumeTasks(paused_tasks)
    /\ h_pause_pending' = h_pause_pending \ paused_tasks
    /\ h_user_paused' = h_user_paused \ paused_tasks
    /\ h_system_paused' = FALSE
    /\ UNCHANGED << wvars, rowvars, state_file, monvars, now, restarts,
                    h_stopped, h_outage_paused, h_outage_resumed, h_loaded,
                    hexec, h_offline_run, h_outage_pauses, h_stopped_queued,
                    h_after_stop >>
    /\ UNCHANGED << subdomains, compvars >>

\* ---- the worker: process_loop and _execute_task (api/tasks.py) ------------

\* await self._pause_event.wait()
WorkerWaitEvent ==
    /\ wpc = "loop"
    /\ pause_event
    /\ wpc' = "get"
    /\ UNCHANGED << tqvars, wtask, eng_paused, eng_stopped, eng_i,
                    results_cache, rowvars, state_file, monvars, envvars,
                    hvars >>
    /\ UNCHANGED << subdomains, compvars >>

\* queue.get() times out after 1 s on an empty queue: continue
WorkerGetTimeout ==
    /\ wpc = "get"
    /\ queue = << >>
    /\ wpc' = "loop"
    /\ UNCHANGED << tqvars, wtask, eng_paused, eng_stopped, eng_i,
                    results_cache, rowvars, state_file, monvars, envvars,
                    hvars >>
    /\ UNCHANGED << subdomains, compvars >>

\* process_loop dequeuing without awaiting the _execute_task it started.
WorkerDequeue_NoAwait ==
    /\ queue # << >>
    /\ LET task == Head(queue)
       IN  /\ queue' = Tail(queue)
           /\ wtask' = task
           /\ IF task_status[task] = "cancelled"
              THEN /\ wpc' = "loop"
                   /\ UNCHANGED << task_status, current_task, h_in_exec >>
              ELSE /\ wpc' = "exec_running"
                   /\ current_task' = task
                   /\ task_status' = [task_status EXCEPT ![task] = "running"]
                   /\ h_in_exec' = h_in_exec \cup {task}
    /\ UNCHANGED << stop_on_error, active_tasks, paused_tasks, pause_event,
                    eng_paused, eng_stopped, eng_i, results_cache, rowvars,
                    state_file, monvars, envvars, hctl, h_in_stage >>
    /\ UNCHANGED << subdomains, hsys, compvars >>

\* queue.get() returns a task; a cancelled one is dropped, any other becomes
\* _current_task and _execute_task sets it RUNNING up to its first await.
WorkerDequeue ==
    /\ wpc = "get"
    /\ queue # << >>
    /\ LET task == Head(queue)
       IN  /\ queue' = Tail(queue)
           /\ wtask' = task
           /\ IF task_status[task] = "cancelled"
              THEN /\ wpc' = "loop"
                   /\ UNCHANGED << task_status, current_task, h_in_exec >>
              ELSE /\ wpc' = "exec_running"
                   /\ current_task' = task
                   /\ task_status' = [task_status EXCEPT ![task] = "running"]
                   /\ h_in_exec' = h_in_exec \cup {task}
    /\ UNCHANGED << stop_on_error, active_tasks, paused_tasks, pause_event,
                    eng_paused, eng_stopped, eng_i, results_cache, rowvars,
                    state_file, monvars, envvars, hctl, h_in_stage >>
    /\ UNCHANGED << subdomains, hsys, compvars >>

\* update_scan_status(scan_id, "running", current_task="Initializing"), then
\* ScannerEngine(self.db, task) is constructed.
ExecWriteRunning ==
    /\ wpc = "exec_running"
    /\ UpdateScanStatus({wtask}, "running")
    /\ eng_paused' = FALSE
    /\ eng_stopped' = FALSE
    /\ results_cache' = << >>
    /\ eng_i' = 0
    /\ wpc' = "load"
    /\ UNCHANGED << tqvars, wtask, row_checkpoint, state_file, monvars,
                    envvars, hvars >>
    /\ UNCHANGED << subdomains, compvars >>

\* The except/finally of _execute_task when engine.run raised, and the except
\* of process_loop that catches what the handler itself raises.
ExecuteTaskFailed ==
    /\ task_status' = [task_status EXCEPT ![wtask] = "failed"]
    /\ IF AcceptsKeywords({"error_message"})
       THEN UpdateScanStatus({wtask}, "failed")
       ELSE UNCHANGED << row_status, row_started, row_completed_at,
                         row_error >>
    /\ current_task' = NoTask
    /\ active_tasks' = active_tasks \ {wtask}
    /\ h_in_exec' = h_in_exec \ {wtask}
    /\ wpc' = "loop"

\* ---- the stage engine: ScannerEngine.run (core/scanner_engine.py) ---------

\* _run_module slicing the order one position short: the stage just run is
\* listed as pending.
EngineCheckpoint_ShortSlice ==
    MakeCheckpoint(wtask, ModuleAt(eng_i),
                   SubSeq(MODULE_ORDER, 1, eng_i),
                   SubSeq(MODULE_ORDER, eng_i + 1, Len(MODULE_ORDER)),
                   results_cache)

\* The checkpoint _run_module hands to save_state after stage eng_i.
EngineCheckpoint ==
    MakeCheckpoint(wtask, ModuleAt(eng_i),
                   SubSeq(MODULE_ORDER, 1, eng_i + 1),
                   SubSeq(MODULE_ORDER, eng_i + 2, Len(MODULE_ORDER)),
                   results_cache)

\* The stages in flight once the for loop of run, with the stages of S in
\* flight, has arrived at index i: _run_module is entered unless the loop is
\* left or the engine polls for resume.
Entered(S, i) ==
    IF i >= Len(MODULE_ORDER) \/ eng_stopped \/ eng_paused
    THEN S
    ELSE S \cup {<< wtask, i >>}

\* The for loop of run arriving at index i, up to the next await. When the
\* list is exhausted or _stopped is set the loop is left, clear_state removes
\* the file unless stopped, run returns and _execute_task sets the task
\* COMPLETED. While _paused the engine polls in _wait_for_resume. Otherwise
\* _run_module is entered: it sets task.current_module and progress.
LoopHead(i) ==
    /\ eng_i' = i
    /\ IF i >= Len(MODULE_ORDER) \/ eng_stopped
       THEN /\ state_file' = IF ~eng_stopped
                             THEN [state_file EXCEPT ![wtask] = << >>]
                             ELSE state_file
            /\ task_status' = [task_status EXCEPT ![wtask] = "completed"]
            /\ wpc' = "exec_completed"
       ELSE /\ wpc' = IF eng_paused THEN "wait_resume" ELSE "mod_start"
            /\ UNCHANGED << state_file, task_status >>

\* resume_state = load_state(); start_index and results_cache from it
EngineLoad ==
    /\ wpc = "load"
    /\ LET resume_state == LoadState(wtask)
       IN  IF resume_state # << >> /\ resume_state[1].can_resume
           THEN /\ LoopHead(GetModuleIndex(resume_state[1].current_module))
                /\ h_in_stage' =
                      Entered(h_in_stage,
                              GetModuleIndex(resume_state[1].current_module))
                /\ results_cache' = resume_state[1].results_cache
           ELSE /\ LoopHead(0)
                /\ h_in_stage' = Entered(h_in_stage, 0)
                /\ UNCHANGED results_cache
    /\ h_loaded' = IF state_file[wtask] # << >> THEN state_file[wtask]
                   ELSE row_checkpoint[wtask]
    /\ UNCHANGED << queue, stop_on_error, active_tasks, paused_tasks,
                    current_task, pause_event, wtask, eng_paused, eng_stopped,
                    rowvars, monvars, envvars, h_stopped, h_pause_pending,
                    h_user_paused, h_outage_paused, h_outage_resumed,
                    h_in_exec >>
    /\ UNCHANGED << subdomains, hsys, compvars >>

\* _run_module: update_scan_status(scan_id, "running", current_task=..., ...)
EngineModuleStart ==
    /\ wpc = "mod_start"
    /\ UpdateScanStatus({wtask}, "running")
    /\ wpc' = "scan"
    /\ UNCHANGED << tqvars, wtask, eng_paused, eng_stopped, eng_i,
                    results_cache, row_checkpoint, state_file, monvars,
                    envvars, hvars >>
    /\ UNCHANGED << subdomains, compvars >>

\* scanner.scan(...) returns: the result is cached, progress set to 100.
\* subdomain_enum has saved the hostnames it found before it returns.
StageReturns(found) ==
    /\ wpc = "scan"
    /\ subdomains' = IF ModuleAt(eng_i) = "subdomain_enum"
                     THEN SaveResults(subdomains, wtask, found)
                     ELSE subdomains
    /\ LET m == ModuleAt(eng_i)
       IN  results_cache' = [k \in (DOMAIN results_cache) \cup {m} |->
                               IF k = m THEN "result" ELSE results_cache[k]]
    /\ wpc' = "mod_done"
    /\ h_in_stage' = h_in_stage \ {<< wtask, eng_i >>}
    /\ UNCHANGED << tqvars, wtask, eng_paused, eng_stopped, eng_i, rowvars,
                    state_file, monvars, envvars, hctl, h_in_exec >>
    /\ UNCHANGED << hsys, compvars >>

\* scanner.scan(...) raises: logged; re-raised only with stop_on_error,
\* otherwise the for loop moves on.
StageRaises ==
    /\ wpc = "scan"
    /\ IF stop_on_error[wtask]
       THEN /\ ExecuteTaskFailed
            /\ h_in_stage' = h_in_stage \ {<< wtask, eng_i >>}
            /\ UNCHANGED << eng_i, state_file >>
       ELSE /\ LoopHead(eng_i + 1)
            /\ h_in_stage' =
                  Entered(h_in_stage \ {<< wtask, eng_i >>}, eng_i + 1)
            /\ UNCHANGED << active_tasks, current_task, row_status,
                            row_started, row_completed_at, row_error,
                            h_in_exec >>
    /\ UNCHANGED << queue, stop_on_error, paused_tasks, pause_event, wtask,
                    eng_paused, eng_stopped, results_cache, row_checkpoint,
                    monvars, envvars, hctl >>
    /\ UNCHANGED << subdomains, hsys, compvars >>

\* update_scan_status(scan_id, "running", progress=...), then save_state
\* writes the file; a failing write is logged and swallowed.
EngineModuleDone(file_ok) ==
    /\ wpc = "mod_done"
    /\ UpdateScanStatus({wtask}, "running")
    /\ state_file' = IF file_ok
                     THEN [state_file EXCEPT ![wtask] = << EngineCheckpoint >>]
                     ELSE state_file
    /\ wpc' = "save_db"
    /\ UNCHANGED << tqvars, wtask, eng_paused, eng_stopped, eng_i,
                    results_cache, row_checkpoint, monvars, envvars, hvars >>
    /\ UNCHANGED << subdomains, compvars >>

\* save_state: db.save_checkpoint; a failing write is logged and swallowed.
\* _run_module returns and the for loop moves on.
EngineSaveRow(db_ok) ==
    /\ wpc = "save_db"
    /\ row_checkpoint' = IF db_ok /\ row_status[wtask] # "none"
                         THEN [row_checkpoint EXCEPT
                                  ![wtask] = << EngineCheckpoint >>]
                         ELSE row_checkpoint
    /\ LoopHead(eng_i + 1)
    /\ h_in_stage' = Entered(h_in_stage, eng_i + 1)
    /\ UNCHANGED << queue, stop_on_error, active_tasks, paused_tasks,
                    current_task, pause_event, wtask, eng_paused, eng_stopped,
                    results_cache, row_status, row_started,
                    row_completed_at, row_error, monvars, envvars, hctl,
                    h_in_exec >>
    /\ UNCHANGED << subdomains, hsys, compvars >>

\* ---- the engine's own controls (core/scanner_engine.py) -------------------
\* The positions of the worker at which engine.run is in progress.
EngineRunning == {"load", "mod_start", "scan", "mod_done", "save_db",
                  "wait_resume"}

\* pause(): _paused = True, subprocess_mgr.pause_all()
EnginePause ==
    /\ wpc \in EngineRunning
    /\ ~eng_paused
    /\ eng_paused' = TRUE
    /\ sp_paused' = TRUE
    /\ h_after_stop' = IF eng_stopped THEN h_after_stop \cup {"pause"}
                       ELSE h_after_stop
    /\ UNCHANGED << tqvars, wpc, wtask, eng_stopped, eng_i, results_cache,
                    rowvars, subdomains, state_file, monvars, envvars, hctl,
                    hexec, h_offline_run, h_outage_pauses, h_system_paused,
                    h_stopped_queued >>
    /\ UNCHANGED << sp_stopped, active_processes, run_pc, run_api, child,
                    signals, stdout_lines, returned, h_outcome, tmvars,
                    sysvars, llmvars >>

\* resume(), with _stopped cleared as well.
EngineResume_ClearsStop ==
    /\ wpc \in EngineRunning
    /\ eng_paused
    /\ eng_paused' = FALSE
    /\ eng_stopped' = FALSE
    /\ sp_paused' = FALSE
    /\ h_after_stop' = IF eng_stopped THEN h_after_stop \cup {"resume"}
                       ELSE h_after_stop
    /\ UNCHANGED << tqvars, wpc, wtask, eng_i, results_cache,
                    rowvars, subdomains, state_file, monvars, envvars, hctl,
                    hexec, h_offline_run, h_outage_pauses, h_system_paused,
                    h_stopped_queued >>
    /\ UNCHANGED << sp_stopped, active_processes, run_pc, run_api, child,
                    signals, stdout_lines, returned, h_outcome, tmvars,
                    sysvars, llmvars >>

\* resume(): _paused = False, subprocess_mgr.resume_all()
EngineResume ==
    /\ wpc \in EngineRunning
    /\ eng_paused
    /\ eng_paused' = FALSE
    /\ sp_paused' = FALSE
    /\ h_after_stop' = IF eng_stopped THEN h_after_stop \cup {"resume"}
                       ELSE h_after_stop
    /\ UNCHANGED << tqvars, wpc, wtask, eng_stopped, eng_i, results_cache,
                    rowvars, subdomains, state_file, monvars, envvars, hctl,
                    hexec, h_offline_run, h_outage_pauses, h_system_paused,
                    h_stopped_queued >>
    /\ UNCHANGED << sp_stopped, active_processes, run_pc, run_api, child,
                    signals, stdout_lines, returned, h_outcome, tmvars,
                    sysvars, llmvars >>

\* stop(): _stopped = True, subprocess_mgr.stop_all()
EngineStop ==
    /\ wpc \in EngineRunning
    /\ ~eng_stopped
    /\ eng_stopped' = TRUE
    /\ sp_stopped' = TRUE
    /\ signals' = [r \in Runs |->
                     IF r \in active_processes
                     THEN Append(signals[r], "terminate") ELSE signals[r]]
    /\ child' = [r \in Runs |->
                   IF r \in active_processes /\ child[r] = "running"
                   THEN "terminated" ELSE child[r]]
    /\ UNCHANGED << tqvars, wpc, wtask, eng_paused, eng_i, results_cache,
                    rowvars, subdomains, state_file, monvars, envvars,
                    hvars >>
    /\ UNCHANGED << sp_paused, active_processes, run_pc, run_api,
                    stdout_lines, returned, h_outcome, tmvars, sysvars,
                    llmvars >>

\* _wait_for_resume: the sleep returns and the loop finds _paused cleared or
\* _stopped set. With _stopped the for loop is left, nothing is cleared and
\* run returns; otherwise _run_module is entered.
EngineWaitEnds ==
    /\ wpc = "wait_resume"
    /\ ~eng_paused \/ eng_stopped
    /\ IF eng_stopped
       THEN /\ task_status' = [task_status EXCEPT ![wtask] = "completed"]
            /\ wpc' = "exec_completed"
            /\ UNCHANGED h_in_stage
       ELSE /\ wpc' = "mod_start"
            /\ h_in_stage' = h_in_stage \cup {<< wtask, eng_i >>}
            /\ UNCHANGED task_status
    /\ UNCHANGED << queue, stop_on_error, active_tasks, paused_tasks,
                    current_task, pause_event, wtask, eng_paused, eng_stopped,
                    eng_i, results_cache, rowvars, state_file, monvars,
                    envvars, hctl, h_in_exec >>
    /\ UNCHANGED << subdomains, hsys, compvars >>

EngineControl ==
    \/ EnginePause
    \/ EngineResume
    \/ EngineStop
    \/ EngineWaitEnds

\* update_scan_status(scan_id, "completed"), then the finally block
ExecWriteCompleted ==
    /\ wpc = "exec_completed"
    /\ UpdateScanStatus({wtask}, "completed")
    /\ current_task' = NoTask
    /\ active_tasks' = active_tasks \ {wtask}
    /\ wpc' = "loop"
    /\ h_in_exec' = h_in_exec \ {wtask}
    /\ UNCHANGED << queue, task_status, stop_on_error, paused_tasks,
                    pause_event, wtask, eng_paused, eng_stopped, eng_i,
                    results_cache, row_checkpoint, state_file, monvars,
                    envvars, hctl, h_in_stage >>
    /\ UNCHANGED << subdomains, hsys, compvars >>

\* ---- resilience monitor (api/resilience_manager.py) ------------------------

\* A tick whose probe found no host: _handle_network_state(False), with
\* _auto_pause once the outage has lasted pause_threshold, then the
\* system-state write and the sleep of check_interval.
MonitorOffline ==
    /\ mpc = "probe"
    /\ now >= mon_wake
    /\ LET since == IF offline_since = NoTime THEN now ELSE offline_since
           offline_duration == now - since
       IN  /\ offline_since' = since
           /\ IF offline_duration >= pause_threshold /\ ~was_paused_by_outage
              THEN /\ was_paused_by_outage' = TRUE
                   /\ PauseTasks(active_tasks)
                   /\ UpdateScanStatus(active_tasks, "paused")
                   /\ h_outage_paused' =
                         IF Executing # NoTask /\ Executing \in active_tasks
                         THEN h_outage_paused \cup {Executing}
                         ELSE h_outage_paused
                   /\ h_pause_pending' =
                         IF Executing # NoTask /\ Executing \in active_tasks
                         THEN h_pause_pending \cup {Executing}
                         ELSE h_pause_pending
                   /\ h_outage_pauses' = h_outage_pauses + 1
                   /\ h_system_paused' = TRUE
              ELSE UNCHANGED << was_paused_by_outage, tqvars, row_status,
                                row_started, row_completed_at, row_error,
                                h_outage_paused, h_pause_pending,
                                h_outage_pauses, h_system_paused >>
    /\ h_offline_run' = IF h_offline_run = NoTime THEN now ELSE h_offline_run
    /\ h_probe' = "offline"
    /\ system_state' = UpsertSystemState(system_state, NetworkStatusData("offline"))
    /\ mon_wake' = now + check_interval
    /\ UNCHANGED << mpc, wvars, row_checkpoint, state_file, envvars, h_stopped,
                    h_user_paused, h_outage_resumed, h_loaded, hexec,
                    h_stopped_queued,
                    h_after_stop >>
    /\ UNCHANGED << subdomains, spvars, tmvars, uscalls,
                    llmvars >>

\* _handle_network_state(True) leaving _offline_since as it was.
MonitorOnline_KeepClock ==
    /\ mpc = "probe"
    /\ now >= mon_wake
    /\ offline_since' = offline_since
    /\ IF offline_since # NoTime /\ was_paused_by_outage
       THEN /\ mpc' = "resume_delay"
            /\ mon_wake' = now + resume_delay
            /\ UNCHANGED system_state
       ELSE /\ system_state' =
                  UpsertSystemState(system_state, NetworkStatusData("online"))
            /\ mon_wake' = now + check_interval
            /\ UNCHANGED mpc
    /\ h_probe' = "online"
    /\ h_offline_run' = NoTime
    /\ UNCHANGED << was_paused_by_outage, tqvars, wvars, rowvars, state_file,
                    envvars, hctl, hexec, h_outage_pauses, h_system_paused,
                    h_stopped_queued,
                    h_after_stop >>
    /\ UNCHANGED << subdomains, spvars, tmvars, uscalls,
                    llmvars >>

\* A tick whose probe succeeded: _handle_network_state(True). With an outage
\* pause outstanding the coroutine sleeps resume_delay before _auto_resume.
MonitorOnline ==
    /\ mpc = "probe"
    /\ now >= mon_wake
    /\ offline_since' = NoTime
    /\ IF offline_since # NoTime /\ was_paused_by_outage
       THEN /\ mpc' = "resume_delay"
            /\ mon_wake' = now + resume_delay
            /\ UNCHANGED system_state
       ELSE /\ system_state' =
                  UpsertSystemState(system_state, NetworkStatusData("online"))
            /\ mon_wake' = now + check_interval
            /\ UNCHANGED mpc
    /\ h_probe' = "online"
    /\ h_offline_run' = NoTime
    /\ UNCHANGED << was_paused_by_outage, tqvars, wvars, rowvars, state_file,
                    envvars, hctl, hexec, h_outage_pauses, h_system_paused,
                    h_stopped_queued,
                    h_after_stop >>
    /\ UNCHANGED << subdomains, spvars, tmvars, uscalls,
                    llmvars >>

\* _auto_resume after the delay, then the system-state write and the sleep.
MonitorAutoResume ==
    /\ mpc = "resume_delay"
    /\ now >= mon_wake
    /\ was_paused_by_outage' = FALSE
    /\ ResumeTasks(paused_tasks)
    /\ UpdateScanStatus(paused_tasks, "running")
    /\ system_state' = UpsertSystemState(system_state, NetworkStatusData("online"))
    /\ mpc' = "probe"
    /\ mon_wake' = now + check_interval
    /\ h_outage_resumed' = h_outage_resumed \cup (h_outage_paused \cap paused_tasks)
    /\ h_pause_pending' = h_pause_pending \ paused_tasks
    /\ h_outage_pauses' = 0
    /\ h_system_paused' = FALSE
    /\ UNCHANGED << offline_since, wvars, row_checkpoint, state_file, envvars,
                    h_stopped, h_user_paused, h_outage_paused, h_loaded, hexec,
                    h_offline_run, h_stopped_queued,
                    h_after_stop >>
    /\ UNCHANGED << h_probe, subdomains, spvars, tmvars, uscalls,
                    llmvars >>

\* ---- environment -------------------------------------------------------------

\* Time passes until the monitor's sleep ends.
AdvanceTime ==
    /\ now < mon_wake
    /\ mon_wake <= MaxTime
    /\ now' = mon_wake
    /\ UNCHANGED << tqvars, wvars, rowvars, state_file, monvars, restarts,
                    requests, hvars >>
    /\ UNCHANGED << subdomains, compvars >>

\* The process is killed and started again: memory is lost, the database and
\* the checkpoint files stay.
Restart ==
    /\ restarts < MaxRestarts
    /\ restarts' = restarts + 1
    /\ requests' = 0
    /\ queue' = << >>
    /\ task_status' = [s \in Scans |-> "none"]
    /\ stop_on_error' = [s \in Scans |-> FALSE]
    /\ active_tasks' = {}
    /\ paused_tasks' = {}
    /\ current_task' = NoTask
    /\ pause_event' = TRUE
    /\ wpc' = "loop"
    /\ wtask' = NoTask
    /\ eng_paused' = FALSE
    /\ eng_stopped' = FALSE
    /\ eng_i' = 0
    /\ results_cache' = << >>
    /\ offline_since' = NoTime
    /\ was_paused_by_outage' = FALSE
    /\ mpc' = "probe"
    /\ mon_wake' = now
    /\ h_stopped' = {}
    /\ h_pause_pending' = {}
    /\ h_user_paused' = {}
    /\ h_outage_paused' = {}
    /\ h_outage_resumed' = {}
    /\ h_loaded' = << >>
    /\ h_in_exec' = {}
    /\ h_in_stage' = {}
    /\ sp_paused' = FALSE
    /\ sp_stopped' = FALSE
    /\ active_processes' = {}
    /\ run_pc' = [r \in Runs |-> "idle"]
    /\ run_api' = [r \in Runs |-> "run"]
    /\ child' = [r \in Runs |-> "none"]
    /\ signals' = [r \in Runs |-> << >>]
    /\ stdout_lines' = [r \in Runs |-> << >>]
    /\ returned' = [r \in Runs |-> << >>]
    /\ h_outcome' = [r \in Runs |-> "none"]
    /\ installed_tools' = {}
    /\ ens_pc' = [c \in Callers |-> "idle"]
    /\ ens_tool' = [c \in Callers |-> "none"]
    /\ ens_result' = [c \in Callers |-> "none"]
    /\ ens_calls' = [c \in Callers |-> 0]
    /\ h_probes' = [t \in Tools |-> 0]
    /\ h_installs' = [t \in Tools |-> 0]
    /\ h_ok' = {}
    /\ us_pc' = [c \in Callers |-> "idle"]
    /\ us_data' = [c \in Callers |-> NoStateData]
    /\ us_existing' = [c \in Callers |-> << >>]
    /\ us_calls' = [c \in Callers |-> 0]
    /\ h_alone' = [c \in Callers |-> TRUE]
    /\ h_prev' = << >>
    /\ current_model' = NoModel
    /\ is_loaded' = FALSE
    /\ llm_pc' = [c \in Callers |-> "idle"]
    /\ llm_model' = [c \in Callers |-> NoModel]
    /\ llm_ret' = [c \in Callers |-> "none"]
    /\ llm_calls' = [c \in Callers |-> 0]
    /\ h_free' = [c \in Callers |-> NoTime]
    /\ h_loads' = [m \in Models |-> 0]
    /\ h_unloads' = 0
    /\ h_offline_run' = NoTime
    /\ h_outage_pauses' = 0
    /\ h_system_paused' = FALSE
    /\ h_stopped_queued' = {}
    /\ h_after_stop' = {}
    /\ h_probe' = "none"
    /\ UNCHANGED << rowvars, subdomains, state_file, now, on_path,
                    system_state >>

\* The state file of scan s is overwritten with bytes that are not JSON
\* (disk fault, manual edit) while no scan is submitted, that is before a
\* resume.
CorruptStateFile(s) ==
    /\ \A t \in Scans : task_status[t] = "none"
    /\ state_file[s] # << >>
    /\ state_file[s] # << NotJson >>
    /\ state_file' = [state_file EXCEPT ![s] = << NotJson >>]
    /\ UNCHANGED << tqvars, wvars, rowvars, monvars, envvars, hvars >>
    /\ UNCHANGED << subdomains, compvars >>

\* ---- process supervisor (core/subprocess_manager.py) -----------------------
\* One reader stands for the two read_stream coroutines of a run: both run the
\* same loop and gather waits for both.

\* Process.returncode of a child that is gone: the exit status, or the
\* negated number of the signal that killed it.
ReturnCode(state) ==
    CASE state = "exited0" -> 0
      [] state = "exited1" -> 1
      [] state = "terminated" -> 0 - 15
      [] state = "killed" -> 0 - 9

\* What the caller of run gets: the ProcessResult (stderr, duration and
\* command left out); run_simple hands on its stdout only.
ProcessResult(api, returncode, lines) ==
    IF api = "run"
    THEN [ returncode |-> returncode, stdout |-> lines ]
    ELSE [ stdout |-> lines ]

\* The exception run re-raises, which run_simple lets through.
Raised == [ exception |-> "spawn" ]

\* run returns: the finally block drops the registration.
RunReturns(r, returncode, lines, outcome) ==
    /\ returned' = [returned EXCEPT
                       ![r] = << ProcessResult(run_api[r], returncode, lines) >>]
    /\ h_outcome' = [h_outcome EXCEPT ![r] = outcome]
    /\ active_processes' = active_processes \ {r}
    /\ run_pc' = [run_pc EXCEPT ![r] = "done"]

\* run(command, task_id=...) or run_simple(command) is called: the child is
\* spawned and registered when a task_id was given; a failing spawn is logged
\* and re-raised.
RunStart(r, api, tagged, spawn_ok) ==
    /\ run_pc[r] = "idle"
    /\ api = "run_simple" => ~tagged
    /\ run_api' = [run_api EXCEPT ![r] = api]
    /\ IF spawn_ok
       THEN /\ child' = [child EXCEPT ![r] = "running"]
            /\ active_processes' = IF tagged THEN active_processes \cup {r}
                                   ELSE active_processes
            /\ run_pc' = [run_pc EXCEPT ![r] = "read"]
            /\ UNCHANGED << returned, h_outcome >>
       ELSE /\ returned' = [returned EXCEPT ![r] = << Raised >>]
            /\ h_outcome' = [h_outcome EXCEPT ![r] = "spawn_failed"]
            /\ run_pc' = [run_pc EXCEPT ![r] = "done"]
            /\ UNCHANGED << child, active_processes >>
    /\ UNCHANGED << sp_paused, sp_stopped, signals, stdout_lines, tmvars,
                    corevars,
                    sysvars, llmvars >>

\* readline returns a line: it is appended; with _stopped set the reader
\* terminates the child and leaves its loop, and run returns what it has; with
\* _paused set the reader starts polling.
ReadLine(r) ==
    /\ run_pc[r] = "read"
    /\ child[r] = "running"
    /\ Len(stdout_lines[r]) < MaxLines
    /\ LET lines == Append(stdout_lines[r], Len(stdout_lines[r]) + 1)
       IN  /\ stdout_lines' = [stdout_lines EXCEPT ![r] = lines]
           /\ IF sp_stopped
              THEN /\ signals' = [signals EXCEPT
                                    ![r] = Append(signals[r], "terminate")]
                   /\ child' = [child EXCEPT ![r] = "terminated"]
                   /\ RunReturns(r, ReturnCode("terminated"), lines,
                                 "killed_by_stop")
              ELSE /\ run_pc' = [run_pc EXCEPT
                                   ![r] = IF sp_paused THEN "hold" ELSE "read"]
                   /\ UNCHANGED << signals, child, returned, h_outcome,
                                   active_processes >>
    /\ UNCHANGED << sp_paused, sp_stopped, run_api, tmvars, corevars,
                    sysvars, llmvars >>

\* readline returns b"": the child is gone, the reader leaves its loop,
\* proc.wait() gives the return code and run returns.
ReadEOF(r) ==
    /\ run_pc[r] = "read"
    /\ child[r] \in {"exited0", "exited1", "terminated"}
    /\ RunReturns(r, ReturnCode(child[r]), stdout_lines[r],
                  CASE child[r] = "exited0" -> "zero_exit"
                    [] child[r] = "exited1" -> "nonzero_exit"
                    [] child[r] = "terminated" -> "killed_by_stop")
    /\ UNCHANGED << sp_paused, sp_stopped, run_api, child, signals,
                    stdout_lines, tmvars, corevars,
                    sysvars, llmvars >>

\* The poll of the pause loop finds _paused cleared or _stopped set.
HoldEnds(r) ==
    /\ run_pc[r] = "hold"
    /\ ~sp_paused \/ sp_stopped
    /\ run_pc' = [run_pc EXCEPT ![r] = "read"]
    /\ UNCHANGED << sp_paused, sp_stopped, active_processes, run_api, child,
                    signals, stdout_lines, returned, h_outcome, tmvars,
                    corevars,
                    sysvars, llmvars >>

\* wait_for expires with the child still running (the readers reading or
\* polling): proc.kill(), returncode = -1, run returns.
Timeout(r) ==
    /\ run_pc[r] \in {"read", "hold"}
    /\ child[r] = "running"
    /\ signals' = [signals EXCEPT ![r] = Append(signals[r], "kill")]
    /\ child' = [child EXCEPT ![r] = "killed"]
    /\ RunReturns(r, 0 - 1, stdout_lines[r], "timeout")
    /\ UNCHANGED << sp_paused, sp_stopped, run_api, stdout_lines, tmvars,
                    corevars,
                    sysvars, llmvars >>

\* The child exits by itself with status 0 or 1.
ChildExits(r, status) ==
    /\ child[r] = "running"
    /\ child' = [child EXCEPT ![r] = status]
    /\ UNCHANGED << sp_paused, sp_stopped, active_processes, run_pc, run_api,
                    signals, stdout_lines, returned, h_outcome, tmvars,
                    corevars,
                    sysvars, llmvars >>

PauseAll ==
    /\ ~sp_paused
    /\ sp_paused' = TRUE
    /\ UNCHANGED << sp_stopped, active_processes, run_pc, run_api, child,
                    signals, stdout_lines, returned, h_outcome, tmvars,
                    corevars,
                    sysvars, llmvars >>

ResumeAll ==
    /\ sp_paused
    /\ sp_paused' = FALSE
    /\ UNCHANGED << sp_stopped, active_processes, run_pc, run_api, child,
                    signals, stdout_lines, returned, h_outcome, tmvars,
                    corevars,
                    sysvars, llmvars >>

\* stop_all: the flag is set and every registered process is terminated.
StopAll ==
    /\ ~sp_stopped
    /\ sp_stopped' = TRUE
    /\ signals' = [r \in Runs |->
                     IF r \in active_processes
                     THEN Append(signals[r], "terminate") ELSE signals[r]]
    /\ child' = [r \in Runs |->
                   IF r \in active_processes /\ child[r] = "running"
                   THEN "terminated" ELSE child[r]]
    /\ UNCHANGED << sp_paused, active_processes, run_pc, run_api,
                    stdout_lines, returned, h_outcome, tmvars, corevars,
                    sysvars, llmvars >>

Supervisor ==
    \/ \E r \in Runs, api \in {"run", "run_simple"}, tagged \in BOOLEAN,
          spawn_ok \in BOOLEAN : RunStart(r, api, tagged, spawn_ok)
    \/ \E r \in Runs : ReadLine(r)
    \/ \E r \in Runs : ReadEOF(r)
    \/ \E r \in Runs : HoldEnds(r)
    \/ \E r \in Runs : Timeout(r)
    \/ \E r \in Runs, status \in {"exited0", "exited1"} : ChildExits(r, status)
    \/ PauseAll
    \/ ResumeAll
    \/ StopAll

SpecSupervisor == Init /\ [][Supervisor]_vars

\* ---- tool registry (core/tool_manager.py) -----------------------------------

\* check_tool: the tool is configured and shutil.which finds its binary.
CheckTool(t) == on_path[t]

\* ensure_tool answering every call by a probe, the memo never consulted.
EnsureTool_NoMemo(c, t) ==
    /\ ens_pc[c] = "idle"
    /\ ens_calls[c] < MaxCalls
    /\ ens_calls' = [ens_calls EXCEPT ![c] = ens_calls[c] + 1]
    /\ ens_tool' = [ens_tool EXCEPT ![c] = t]
    /\ h_probes' = [h_probes EXCEPT ![t] = h_probes[t] + 1]
    /\ IF CheckTool(t)
       THEN /\ installed_tools' = installed_tools \cup {t}
            /\ h_ok' = h_ok \cup {t}
            /\ ens_result' = [ens_result EXCEPT ![c] = "True"]
            /\ UNCHANGED << ens_pc, h_installs >>
       ELSE /\ h_installs' = [h_installs EXCEPT ![t] = h_installs[t] + 1]
            /\ ens_pc' = [ens_pc EXCEPT ![c] = "installing"]
            /\ ens_result' = [ens_result EXCEPT ![c] = "none"]
            /\ UNCHANGED << installed_tools, h_ok >>
    /\ UNCHANGED << on_path, spvars, corevars,
                    sysvars, llmvars >>

\* ensure_tool(t) up to its return or to the await inside install_tool: a
\* memoised tool is answered from the memo; otherwise check_tool probes, a
\* found tool is memoised, and for a missing one the install command is
\* started.
EnsureTool(c, t) ==
    /\ ens_pc[c] = "idle"
    /\ ens_calls[c] < MaxCalls
    /\ ens_calls' = [ens_calls EXCEPT ![c] = ens_calls[c] + 1]
    /\ ens_tool' = [ens_tool EXCEPT ![c] = t]
    /\ IF t \in installed_tools
       THEN /\ ens_result' = [ens_result EXCEPT ![c] = "True"]
            /\ UNCHANGED << installed_tools, ens_pc, h_probes, h_installs,
                            h_ok >>
       ELSE /\ h_probes' = [h_probes EXCEPT ![t] = h_probes[t] + 1]
            /\ IF CheckTool(t)
               THEN /\ installed_tools' = installed_tools \cup {t}
                    /\ h_ok' = h_ok \cup {t}
                    /\ ens_result' = [ens_result EXCEPT ![c] = "True"]
                    /\ UNCHANGED << ens_pc, h_installs >>
               ELSE /\ h_installs' = [h_installs EXCEPT
                                        ![t] = h_installs[t] + 1]
                    /\ ens_pc' = [ens_pc EXCEPT ![c] = "installing"]
                    /\ ens_result' = [ens_result EXCEPT ![c] = "none"]
                    /\ UNCHANGED << installed_tools, h_ok >>
    /\ UNCHANGED << on_path, spvars, corevars,
                    sysvars, llmvars >>

\* The install command returns: return code 0 memoises the tool and
\* install_tool returns True; a non-zero code or an exception gives False and
\* memoises nothing.
InstallReturns(c, success) ==
    /\ ens_pc[c] = "installing"
    /\ ens_pc' = [ens_pc EXCEPT ![c] = "idle"]
    /\ IF success
       THEN /\ installed_tools' = installed_tools \cup {ens_tool[c]}
            /\ on_path' = [on_path EXCEPT ![ens_tool[c]] = TRUE]
            /\ h_ok' = h_ok \cup {ens_tool[c]}
            /\ ens_result' = [ens_result EXCEPT ![c] = "True"]
       ELSE /\ ens_result' = [ens_result EXCEPT ![c] = "False"]
            /\ UNCHANGED << installed_tools, on_path, h_ok >>
    /\ UNCHANGED << ens_tool, ens_calls, h_probes, h_installs, spvars,
                    corevars,
                    sysvars, llmvars >>

\* The binary is put on the PATH, or taken off it, outside the registry.
PathChanges(t) ==
    /\ on_path' = [on_path EXCEPT ![t] = ~on_path[t]]
    /\ UNCHANGED << installed_tools, ens_pc, ens_tool, ens_result, ens_calls,
                    h_probes, h_installs, h_ok, spvars, corevars,
                    sysvars, llmvars >>

Registry ==
    \/ \E c \in Callers, t \in Tools : EnsureTool(c, t)
    \/ \E c \in Callers, success \in BOOLEAN : InstallReturns(c, success)
    \/ \E t \in Tools : PathChanges(t)

SpecRegistry == Init /\ [][Registry]_vars

\* ---- update_system_state (api/database.py) ---------------------------------
\* Up to the first suspension: SELECT id FROM system_state LIMIT 1.
UpdateSystemStateSelect(c, state_data) ==
    /\ us_pc[c] = "idle"
    /\ us_calls[c] < MaxCalls
    /\ us_calls' = [us_calls EXCEPT ![c] = @ + 1]
    /\ us_data' = [us_data EXCEPT ![c] = state_data]
    /\ us_existing' = [us_existing EXCEPT ![c] =
                          IF system_state = << >> THEN << >>
                          ELSE << system_state[1].id >>]
    /\ us_pc' = [us_pc EXCEPT ![c] = "write"]
    /\ h_alone' = [d \in Callers |->
                      IF d = c THEN \A e \in Callers : us_pc[e] = "idle"
                      ELSE h_alone[d] /\ us_pc[d] = "idle"]
    /\ UNCHANGED << system_state, h_prev, spvars, tmvars, corevars, llmvars >>

\* `if existing:` UPDATE ... WHERE id = existing['id'], else INSERT with
\* state_data.get('id'); then commit.  A fetched row is truthy whatever its id.
UpdateSystemStateWrite(c) ==
    /\ us_pc[c] = "write"
    /\ system_state' =
          IF us_existing[c] # << >>
          THEN UpdateWhereId(system_state, us_existing[c][1],
                             BoundValues(us_data[c]))
          ELSE InsertRow(system_state, Get(us_data[c].id, Null),
                         BoundValues(us_data[c]))
    /\ us_pc' = [us_pc EXCEPT ![c] = "idle"]
    /\ h_prev' = << [ state_data |-> us_data[c], alone |-> h_alone[c] ] >>
    /\ UNCHANGED << us_data, us_existing, us_calls, h_alone, spvars, tmvars,
                    corevars, llmvars >>

SystemState ==
    \/ \E c \in Callers, state_data \in StateData :
          UpdateSystemStateSelect(c, state_data)
    \/ \E c \in Callers : UpdateSystemStateWrite(c)

SpecSystemState == Init /\ [][SystemState]_vars

\* ---- LLM model manager (api/llm_integration.py) -----------------------------
MemoryThresholds ==
    [m \in Models |-> CASE m = "llama3.1:8b" -> 6000
                         [] m = "gemma3:4b" -> 3500
                         [] m = "gemma3:1b" -> 1500]

\* Values of get_free_memory_mb() on both sides of every threshold.
FreeMemory == {1000, 1500, 3000, 3500, 5000, 6000, 8000}

select_optimal_model(free_mem) ==
    IF free_mem >= MemoryThresholds["llama3.1:8b"] THEN "llama3.1:8b"
    ELSE IF free_mem >= MemoryThresholds["gemma3:4b"] THEN "gemma3:4b"
    ELSE "gemma3:1b"

\* switch_model(model_name) from its test of current_model up to the first
\* suspension, which is the pull request of load_model: unload_model returns
\* at once when nothing is loaded and otherwise clears both fields.
SwitchBody(c, model_name) ==
    /\ llm_model' = [llm_model EXCEPT ![c] = model_name]
    /\ IF current_model = model_name
       THEN /\ llm_ret' = [llm_ret EXCEPT ![c] = "True"]
            /\ UNCHANGED << current_model, is_loaded, llm_pc, h_loads,
                            h_unloads >>
       ELSE /\ current_model' = IF is_loaded THEN NoModel ELSE current_model
            /\ is_loaded' = FALSE
            /\ h_unloads' = IF is_loaded THEN h_unloads + 1 ELSE h_unloads
            /\ h_loads' = [h_loads EXCEPT ![model_name] = @ + 1]
            /\ llm_pc' = [llm_pc EXCEPT ![c] = "pull"]
            /\ llm_ret' = [llm_ret EXCEPT ![c] = "none"]

\* POST /api/llm/switch -> switch_model(model)
SwitchModel(c, model_name) ==
    /\ llm_pc[c] = "idle"
    /\ llm_calls[c] < MaxCalls
    /\ llm_calls' = [llm_calls EXCEPT ![c] = @ + 1]
    /\ h_free' = [h_free EXCEPT ![c] = NoTime]
    /\ SwitchBody(c, model_name)
    /\ UNCHANGED << spvars, tmvars, sysvars, corevars >>

\* auto_scale (called by generate when nothing is loaded): the model is
\* selected from the free memory and switch_model is called when it is not
\* current_model.
AutoScale(c, free_mem) ==
    /\ llm_pc[c] = "idle"
    /\ llm_calls[c] < MaxCalls
    /\ llm_calls' = [llm_calls EXCEPT ![c] = @ + 1]
    /\ h_free' = [h_free EXCEPT ![c] = free_mem]
    /\ SwitchBody(c, select_optimal_model(free_mem))
    /\ UNCHANGED << spvars, tmvars, sysvars, corevars >>

\* load_model after the pull request: the ClientSession block has been left,
\* so the request to /api/generate is made on a closed session and raises;
\* the except clause logs it and load_model returns False with current_model
\* and is_loaded as they were.
LoadModelReturns(c) ==
    /\ llm_pc[c] = "pull"
    /\ llm_pc' = [llm_pc EXCEPT ![c] = "idle"]
    /\ llm_ret' = [llm_ret EXCEPT ![c] = "False"]
    /\ UNCHANGED << current_model, is_loaded, llm_model, llm_calls, h_free,
                    h_loads, h_unloads, spvars, tmvars, sysvars, corevars >>

LLM ==
    \/ \E c \in Callers, model_name \in Models : SwitchModel(c, model_name)
    \/ \E c \in Callers, free_mem \in FreeMemory : AutoScale(c, free_mem)
    \/ \E c \in Callers : LoadModelReturns(c)

SpecLLM == Init /\ [][LLM]_vars

\* The control surface's per-scan and system-wide requests.
ControlSurface ==
    \/ \E s \in Scans : PauseScan(s)
    \/ \E s \in Scans : ResumeScan(s)
    \/ \E s \in Scans : StopScan(s)
    \/ SystemPause
    \/ SystemResume

\* The queue worker with the engine it runs.
Worker ==
    \/ WorkerWaitEvent
    \/ WorkerGetTimeout
    \/ WorkerDequeue
    \/ ExecWriteRunning
    \/ EngineLoad
    \/ EngineModuleStart
    \/ \E found \in Found : StageReturns(found)
    \/ StageRaises
    \/ \E file_ok \in BOOLEAN : EngineModuleDone(file_ok)
    \/ \E db_ok \in BOOLEAN : EngineSaveRow(db_ok)
    \/ ExecWriteCompleted

\* The resilience monitor with the clock it reads.
Monitor ==
    \/ MonitorOffline
    \/ MonitorOnline
    \/ MonitorAutoResume
    \/ AdvanceTime

Submit == \E s \in Scans, soe \in BOOLEAN : AddTask(s, soe)

\* The whole program.
Next == Submit \/ ControlSurface \/ Worker \/ Monitor \/ Restart

Spec == Init /\ [][Next]_vars

\* Task queue, engine and control surface in one process lifetime, the
\* monitor seeing the network up throughout.
NextQueue == Submit \/ ControlSurface \/ Worker

SpecQueue == Init /\ [][NextQueue]_vars

\* Scans run, the process is killed and restarted, scans are enqueued again.
NextRestart == Submit \/ Worker \/ Restart

SpecRestart == Init /\ [][NextRestart]_vars

\* One scan submitted per process lifetime.
SubmitAlone ==
    \E s \in Scans :
        /\ \A t \in Scans : task_status[t] = "none"
        /\ AddTask(s, FALSE)

\* The worker when no stage raises; checkpoint writes may fail.
WorkerNoRaise ==
    \/ WorkerWaitEvent
    \/ WorkerGetTimeout
    \/ WorkerDequeue
    \/ ExecWriteRunning
    \/ EngineLoad
    \/ EngineModuleStart
    \/ \E found \in Found : StageReturns(found)
    \/ \E file_ok \in BOOLEAN : EngineModuleDone(file_ok)
    \/ \E db_ok \in BOOLEAN : EngineSaveRow(db_ok)
    \/ ExecWriteCompleted

\* Scans submitted and run by the worker, no request interfering.
NextWorker == Submit \/ Worker

SpecWorker == Init /\ [][NextWorker]_vars

\* Restarts with state files damaged between the runs, a single scan in the
\* queue at a time (the checkpoint store is keyed by scan id).
NextCorrupt ==
    \/ SubmitAlone
    \/ WorkerNoRaise
    \/ Restart
    \/ \E s \in Scans : CorruptStateFile(s)

SpecCorrupt == Init /\ [][NextCorrupt]_vars

\* The worker when no stage raises and no checkpoint write fails.
WorkerNoFault ==
    \/ WorkerWaitEvent
    \/ WorkerGetTimeout
    \/ WorkerDequeue
    \/ ExecWriteRunning
    \/ EngineLoad
    \/ EngineModuleStart
    \/ \E found \in Found : StageReturns(found)
    \/ EngineModuleDone(TRUE)
    \/ EngineSaveRow(TRUE)
    \/ ExecWriteCompleted

\* Fault-free scans run under the resilience monitor, with per-scan pause
\* requests.
NextOutage ==
    \/ \E s \in Scans : AddTask(s, FALSE)
    \/ \E s \in Scans : PauseScan(s)
    \/ WorkerNoFault
    \/ Monitor

SpecOutage == Init /\ [][NextOutage]_vars

\* One fault-free scan per process lifetime under the resilience monitor.
\* One scan run by the worker while the engine's pause, resume and stop are
\* called on it.
NextEngine == SubmitAlone \/ Worker \/ EngineControl

SpecEngine == Init /\ [][NextEngine]_vars

NextMonitor == SubmitAlone \/ WorkerNoFault \/ Monitor

SpecMonitor == Init /\ [][NextMonitor]_vars

TypeOK ==
    /\ active_tasks \subseteq Scans
    /\ paused_tasks \subseteq Scans
    /\ current_task \in Scans \cup {NoTask}
    /\ eng_i \in 0..Len(MODULE_ORDER)

\* ---- properties -------------------------------------------------------------

Terminal == {"completed", "failed"}

\* A step in which the engine enters _run_module for a stage of scan s.
StageBegins(s) == wtask = s /\ wpc # "mod_start" /\ wpc' = "mod_start"

Range(f) == {f[k] : k \in DOMAIN f}

IsQueued(s) == \E k \in 1..Len(queue) : queue[k] = s

\* Changes of scans.status the scan state machine allows.
AllowedTransitions ==
    { << "none", "pending" >>, << "pending", "running" >>,
      << "running", "paused" >>, << "paused", "running" >>,
      << "running", "completed" >>, << "running", "failed" >> }

\* C1: every change of a scan row's status follows
\* pending -> running -> (paused <-> running)* -> (completed | failed);
\* in particular the status never goes from pending directly to paused.
C1_StatusSequence ==
    [][\A s \in Scans :
          row_status'[s] # row_status[s]
          => << row_status[s], row_status'[s] >> \in AllowedTransitions]_vars

\* C2: after stop(scanId) was issued for the scan the worker is executing,
\* the engine begins no further stage of that scan.
C2_NoStageAfterStop ==
    [][\A s \in h_stopped : ~StageBegins(s)]_vars

\* C3: a scan stopped by the user while the worker executed it has, once the
\* worker is through with it, row status failed with the error message
\* "stopped by user" (and so is not left recorded as running or completed).
C3_StoppedEndsFailed ==
    \A s \in h_stopped :
        Executing # s
        => row_status[s] = "failed" /\ row_error[s] = StoppedByUserMsg

\* C4: after pause(scanId) was issued for the scan the worker is executing,
\* no further stage of that scan begins until resume(scanId) or stop(scanId)
\* is issued.
C4_NoStageWhilePaused ==
    [][\A s \in h_pause_pending : ~StageBegins(s)]_vars

\* C5: when a scan is run again and a checkpoint written by save_state is on
\* disk, no stage listed in its completed_modules is executed again (the run
\* starts at the stage after the last completed one).
C5_NoCompletedStageRerun ==
    (wpc \in {"mod_start", "scan", "mod_done", "save_db"} /\ h_loaded # << >>)
    => ModuleAt(eng_i) \notin Range(h_loaded[1].completed_modules)

\* C6: a checkpoint file written by save_state and not corrupted since is
\* returned by load_state as a resumable state with the current_module,
\* completed_modules, pending_modules and results_cache that were saved.
C6_SaveLoadRoundTrip ==
    \A s \in Scans :
        state_file[s] # << >>
        => LET saved == state_file[s][1]
               loaded == LoadState(s)
           IN  /\ loaded # << >>
               /\ loaded[1].can_resume
               /\ loaded[1].current_module = saved.current_module
               /\ loaded[1].completed_modules = saved.completed_modules
               /\ loaded[1].pending_modules = saved.pending_modules
               /\ loaded[1].results_cache = saved.results_cache

\* C7: when stage K has returned and stage K+1 of the same scan begins, the
\* checkpoint naming K as last completed is in the state file and in the scan
\* row, also when a checkpoint write raised.
C7_CheckpointBeforeNextStage ==
    [][(wpc = "save_db" /\ wpc' = "mod_start")
       => /\ state_file'[wtask] # << >>
          /\ state_file'[wtask][1].current_module = ModuleAt(eng_i)
          /\ row_checkpoint'[wtask] # << >>
          /\ row_checkpoint'[wtask][1].current_module = ModuleAt(eng_i)]_vars

\* C8: the outage pause puts the scan the worker is executing into status
\* paused, and a scan that was paused by the outage and automatically resumed
\* (no user stop being issued) ends with row status completed or failed once
\* the worker is through with it.
C8_OutagePauseThenTerminal ==
    [][/\ (~was_paused_by_outage /\ was_paused_by_outage')
          => \A s \in Scans : Executing = s => row_status'[s] = "paused"
       /\ \A s \in h_outage_resumed' :
             (Executing' # s /\ ~IsQueued(s)')
             => row_status'[s] \in Terminal]_vars

\* C9: _auto_resume leaves paused every scan that a user pause(scanId) had
\* paused.
C9_AutoResumeKeepsUserPause ==
    [][(mpc = "resume_delay" /\ mpc' = "probe")
       => \A s \in h_user_paused \cap paused_tasks : s \in paused_tasks']_vars

\* C10: once a scan row's status is completed or failed, no step changes the
\* row's status or completed_at.
C10_TerminalRowFrozen ==
    [][\A s \in Scans :
          row_status[s] \in Terminal
          => /\ row_status'[s] = row_status[s]
             /\ row_completed_at'[s] = row_completed_at[s]]_vars

\* C11: when load_state finds a state file that does not parse or whose
\* digest differs it does not return that file's state (only a row copy that
\* verifies can be returned); when the row copy does not verify either it
\* returns no state and the engine starts at stage 0 with an empty
\* results_cache.
C11_CorruptCheckpointIgnored ==
    [][(wpc = "load" /\ wpc' # "load" /\ restarts' = restarts)
       => LET file == state_file[wtask]
              blob == row_checkpoint[wtask]
              fileBad == file # << >> /\ ~Verifies(file[1])
              blobGood == blob # << >> /\ Verifies(blob[1])
          IN  /\ (fileBad /\ blobGood)
                 => LoadState(wtask) = << DeserializeResults(blob[1]) >>
              /\ (fileBad /\ ~blobGood)
                 => /\ LoadState(wtask) = << >>
                    /\ eng_i' = 0
                    /\ wpc' = "mod_start"
                    /\ ModuleAt(eng_i') = ALL_MODULES[1]
                    /\ results_cache' = << >>]_vars

\* An unparseable state file was on disk beside a row copy when the engine
\* loaded, and the run is entering stage 0 with nothing cached.
C11_Witness ==
    /\ wpc = "mod_start"
    /\ h_loaded = << NotJson >>
    /\ row_checkpoint[wtask] # << >>
    /\ eng_i = 0
    /\ results_cache = << >>

\* C12: when engine.run raises (a stage raised under stop_on_error), the
\* worker records the scan row as failed with the error text, removes the
\* scan from the active map and is back at the head of its loop to dequeue
\* the next scan.
C12_RaiseRecordedFailed ==
    [][(wpc = "scan" /\ stop_on_error[wtask] /\ wpc' \notin {"scan", "mod_done"})
       => /\ row_status'[wtask] = "failed"
          /\ row_error'[wtask] # ""
          /\ wtask \notin active_tasks'
          /\ wpc' = "loop"]_vars

\* C14: when a scan has completed successfully (run returned, the row is
\* written completed), neither its state file nor the checkpoint blob of its
\* row remains, and load_state returns no state for it.
C14_CompletedLeavesNoCheckpoint ==
    [][(wpc = "exec_completed" /\ wpc' = "loop")
       => /\ state_file'[wtask] = << >>
          /\ row_checkpoint'[wtask] = << >>
          /\ LoadFrom(state_file'[wtask], row_checkpoint'[wtask]) = << >>]_vars

\* The checkpoints the file of scan s and its row hold (damaged files apart).
StoredCheckpoints(s) ==
    { c[1] : c \in { x \in {state_file[s], row_checkpoint[s]} :
                        x # << >> /\ x[1] # NotJson } }

\* C15: in every checkpoint the engine wrote, completed_modules is a prefix
\* of the static stage order, pending_modules is the remaining suffix, the
\* two concatenated are the static order, and current_module is the last
\* element of completed_modules.
C15_CheckpointSplitsOrder ==
    \A s \in Scans : \A cp \in StoredCheckpoints(s) :
        LET done == cp.completed_modules
            todo == cp.pending_modules
        IN  /\ Len(done) >= 1
            /\ Len(done) <= Len(MODULE_ORDER)
            /\ done = SubSeq(MODULE_ORDER, 1, Len(done))
            /\ todo = SubSeq(MODULE_ORDER, Len(done) + 1, Len(MODULE_ORDER))
            /\ done \o todo = MODULE_ORDER
            /\ cp.current_module = done[Len(done)]

\* A checkpoint written after the first stage is stored, with stages still
\* pending, while the engine is at a later stage.
C15_Witness ==
    \E s \in Scans : \E cp \in StoredCheckpoints(s) :
        /\ cp.completed_modules = << ALL_MODULES[1] >>
        /\ cp.pending_modules # << >>
        /\ wtask = s
        /\ wpc = "scan"
        /\ eng_i = 1

\* C13: the worker executes at most one scan at a time and at most one stage
\* at a time: no stage begins while another stage has neither returned nor
\* raised, no scan is started while a previous _execute_task has not
\* finished, and a stage in flight belongs to the scan being executed.
C13_OneScanOneStage ==
    /\ Cardinality(h_in_exec) <= 1
    /\ Cardinality(h_in_stage) <= 1
    /\ \A st \in h_in_stage : st[1] \in h_in_exec

\* The second stage of a scan is executing while another scan waits in the
\* queue.
C13_Witness ==
    /\ queue # << >>
    /\ wpc = "scan"
    /\ h_in_exec = {wtask}
    /\ h_in_stage = {<< wtask, 1 >>}

\* C16: when the timeout of run expires, the child is first sent terminate
\* and is force-killed only after that (after the 5 s grace window), and the
\* ProcessResult has return code -1 and the output lines read before expiry.
C16_TimeoutTerminatesThenKills ==
    \A r \in Runs :
        h_outcome[r] = "timeout"
        => /\ \E k \in 1..Len(signals[r]) : signals[r][k] = "terminate"
           /\ \A k \in 1..Len(signals[r]) :
                 signals[r][k] = "kill"
                 => \E j \in 1..(k - 1) : signals[r][j] = "terminate"
           /\ run_api[r] = "run"
              => /\ returned[r][1].returncode = 0 - 1
                 /\ returned[r][1].stdout = stdout_lines[r]

\* A run with a child alive, its reader reading or polling.
InFlight(r) == run_pc[r] \in {"read", "hold"} /\ child[r] = "running"

\* C17: stop_all sends terminate to the child of every run in flight, and
\* each of these runs can then return what it has read: its child is gone, so
\* the reader needs no further line, and the pause poll ends without
\* resume_all.
C17_StopAllReachesEveryChild ==
    [][(~sp_stopped /\ sp_stopped')
       => \A r \in Runs :
             InFlight(r)
             => /\ \E k \in 1..Len(signals'[r]) : signals'[r][k] = "terminate"
                /\ child'[r] # "running"
                /\ run_pc'[r] = "hold" => (~sp_paused' \/ sp_stopped')]_vars

\* What a caller can tell an outcome by, whatever the output was: the
\* exception, or the return code when it is handed one.
Discriminator(ret) ==
    IF "exception" \in DOMAIN ret THEN [ exception |-> ret.exception ]
    ELSE IF "returncode" \in DOMAIN ret THEN [ returncode |-> ret.returncode ]
    ELSE [ text_only |-> TRUE ]

\* C18: of two finished calls made through the same method, one ended by
\* the timeout, by a non-zero exit, by stop or by a failed spawn and the other
\* by another of these, the callers can tell the outcomes apart; in particular
\* run_simple keeps timeout and non-zero exit apart.
C18_OutcomesDistinguishable ==
    \A r1, r2 \in Runs :
        ( /\ run_pc[r1] = "done" /\ run_pc[r2] = "done"
          /\ run_api[r1] = run_api[r2]
          /\ h_outcome[r1] # h_outcome[r2]
          /\ {h_outcome[r1], h_outcome[r2]} \subseteq
                {"timeout", "nonzero_exit", "killed_by_stop", "spawn_failed"} )
        => Discriminator(returned[r1][1]) # Discriminator(returned[r2][1])

\* C19: overlapping ensure_tool calls for the same missing tool run its
\* install command once: no two calls are inside install_tool for one tool
\* at the same time, and each call returns what that one attempt gave.
C19_InstallOncePerTool ==
    \A c1, c2 \in Callers :
        (c1 # c2 /\ ens_pc[c1] = "installing" /\ ens_pc[c2] = "installing")
        => ens_tool[c1] # ens_tool[c2]

\* C20: an ensure_tool(t) call made after a probe or an install of t
\* succeeded returns True at once, with no further probe and no further
\* install, however many such calls are made.
C20_MemoShortCircuits ==
    [][\A c \in Callers :
          (ens_calls'[c] = ens_calls[c] + 1 /\ ens_tool'[c] \in h_ok)
          => /\ ens_result'[c] = "True"
             /\ ens_pc'[c] = "idle"
             /\ h_probes' = h_probes
             /\ h_installs' = h_installs]_vars

\* One caller has made all its calls for one tool: the first probed and
\* installed it, every later one was answered True with no further probe,
\* the binary meanwhile being off the PATH again.
C20_Witness ==
    \E c \in Callers, t \in Tools :
        /\ ens_calls[c] = MaxCalls
        /\ \A d \in Callers \ {c} : ens_calls[d] = 0
        /\ \A u \in Tools \ {t} : h_probes[u] = 0
        /\ ens_tool[c] = t
        /\ ens_pc[c] = "idle"
        /\ ens_result[c] = "True"
        /\ h_probes[t] = 1
        /\ h_installs[t] = 1
        /\ ~on_path[t]

\* C21: when a call of update_system_state completes that no other call
\* overlapped, and the call completed just before it was made with the same
\* values and was not overlapped either, the table holds exactly one row and
\* that row holds those values.
C21_UpsertTwiceOneRow ==
    [][\A c \in Callers :
         ( /\ us_pc[c] = "write"
           /\ us_pc'[c] = "idle"
           /\ restarts' = restarts
           /\ h_alone[c]
           /\ h_prev = << [ state_data |-> us_data[c], alone |-> TRUE ] >> )
         => /\ Len(system_state') = 1
            /\ system_state'[1].network_status =
                  BoundValues(us_data[c]).network_status
            /\ system_state'[1].tunnel_url =
                  BoundValues(us_data[c]).tunnel_url]_vars

\* C22: the subdomains table never holds two rows for the same scan and
\* hostname, also after subdomain_enum ran again for the scan after a
\* restart.
C22_OneRowPerScanHostname ==
    \A k \in Scans \X Hostnames : subdomains[k] <= 1

\* C23: the monitor calls _auto_pause only at a failed probe that ends an
\* unbroken run of failed probes begun at least pause_threshold seconds
\* earlier (a good probe ends the run), and only when no _auto_pause has been
\* called since the last _auto_resume.
C23_OutagePauseAfterThreshold ==
    [][(h_outage_pauses' # h_outage_pauses /\ h_outage_pauses' # 0)
         => /\ h_offline_run # NoTime
            /\ now - h_offline_run >= pause_threshold
            /\ h_outage_pauses = 0]_vars

\* An outage pause was issued for a run of failed probes that began after a
\* good probe, it paused a scan, and a later failed probe of the same outage
\* has been handled.
C23_Witness ==
    /\ h_outage_pauses = 1
    /\ h_offline_run > 0
    /\ now - h_offline_run >= pause_threshold + check_interval
    /\ mpc = "probe"
    /\ mon_wake > now
    /\ paused_tasks # {}

\* C24: while a system-wide pause is outstanding (trigger_pause or the
\* outage pause ran, and neither trigger_resume nor the automatic resume
\* since), the worker takes no scan off the queue to execute it.
C24_NoDequeueWhileSystemPaused ==
    [][(h_system_paused /\ h_system_paused')
         => ~(wpc = "get" /\ wpc' = "exec_running")]_vars

\* C25: when a stage raises, then without stop_on_error the engine moves on
\* to the next stage (or, after the last one, the scan completes) and the
\* row is not failed; with stop_on_error no later stage is entered, the
\* worker is back at its loop and the scan's row has status failed.
C25_StageRaiseFollowsStopOnError ==
    [][(wpc = "scan" /\ wpc' \notin {"scan", "mod_done"}
          /\ restarts' = restarts)
       => IF stop_on_error[wtask]
          THEN /\ wpc' = "loop"
               /\ \A i \in 0..Len(MODULE_ORDER) :
                      << wtask, i >> \notin h_in_stage'
               /\ row_status'[wtask] = "failed"
          ELSE /\ eng_i' = eng_i + 1
               /\ wpc' \in {"mod_start", "wait_resume", "exec_completed"}
               /\ wpc' = "exec_completed"
                     => task_status'[wtask] = "completed"
               /\ row_status'[wtask] # "failed"]_vars

\* C26: a scan for which stop was requested while it waited in the queue is
\* dropped by the worker when it is dequeued, and no stage of it is ever
\* entered, whatever pause and resume requests came in between.
C26_StoppedWhileQueuedIsDropped ==
    [][\A s \in h_stopped_queued :
         /\ (wpc = "get" /\ queue # << >> /\ Head(queue) = s
               /\ queue' = Tail(queue))
            => wpc' = "loop"
         /\ \A i \in 0..Len(MODULE_ORDER) : << s, i >> \notin h_in_stage']_vars

\* C27: the step in which _execute_task is left for a scan leaves the scan
\* out of the active map, and from then on no request puts it back.  (A
\* submitted scan is taken out of the active map by that step only, so the
\* finished scans are the submitted ones absent from the map.)
C27_FinishedStaysOutOfActive ==
    [][\A s \in Scans :
         restarts' = restarts
         => /\ (s \in h_in_exec /\ s \notin h_in_exec')
               => s \notin active_tasks'
            /\ (task_status[s] # "none" /\ s \notin active_tasks)
               => s \notin active_tasks']_vars

\* C28: between pause_all and the next resume_all or stop_all no reader
\* takes a further line from its child (a line read is a line appended and
\* handed to the callback).
C28_NoLineReadWhilePaused ==
    [][(sp_paused /\ sp_paused' /\ ~sp_stopped /\ ~sp_stopped')
         => \A r \in Runs : stdout_lines'[r] = stdout_lines[r]]_vars

\* C29: while the pause lasts and no stop was requested, the supervisor
\* sends no signal to a child whose reader is held, and the run of that
\* child does not end on the timeout path.
C29_PauseNeverKills ==
    [][\A r \in Runs :
         ( /\ run_pc[r] = "hold"
           /\ sp_paused /\ sp_paused'
           /\ ~sp_stopped /\ ~sp_stopped' )
         => /\ signals'[r] = signals[r]
            /\ h_outcome'[r] # "timeout"]_vars

\* C30: once an install attempt for a tool has failed (and no probe or
\* install of it has succeeded), a later ensure_tool call for that tool
\* returns False at once and starts no further install command.
C30_FailedInstallMemoised ==
    [][\A c, d \in Callers, t \in Tools :
          ( /\ ens_tool[c] = t
            /\ ens_pc[c] = "idle"
            /\ ens_result[c] = "False"
            /\ t \notin h_ok
            /\ ens_calls'[d] = ens_calls[d] + 1
            /\ ens_tool'[d] = t )
          => /\ ens_result'[d] = "False"
             /\ ens_pc'[d] = "idle"
             /\ h_installs' = h_installs]_vars

\* C31: whenever save_state stores a checkpoint on the scan row, the state
\* file holds that same checkpoint (the file is written first, so it is never
\* behind the row), also when one of the two writes fails; and what
\* load_state returns has at least the completed stages of the row's blob.
C31_FileNotOlderThanRow ==
    [][\A s \in Scans :
         /\ (row_checkpoint'[s] # row_checkpoint[s]
               /\ row_checkpoint'[s] # << >>)
            => state_file'[s] = row_checkpoint'[s]
         /\ (LoadState(s) # << >> /\ row_status[s] # "none"
               /\ row_checkpoint[s] # << >>)
            => Len(LoadState(s)[1].completed_modules)
                 >= Len(row_checkpoint[s][1].completed_modules)]_vars

\* C32: when a monitor tick completes, system_state has a single row and its
\* network_status is the result of that tick's probe, on the first tick and
\* on every later one.
C32_RowFollowsProbe ==
    [][(mon_wake' # mon_wake /\ mpc' = "probe" /\ restarts' = restarts)
         => /\ Len(system_state') = 1
            /\ system_state'[1].network_status = h_probe']_vars

\* C33: the model an auto_scale call selects needs no more memory than is
\* free, no model that fits needs more than the selected one, and a load is
\* started only when the selected model is not the loaded one.
C33_AutoScalePicksLargestFitting ==
    [][\A c \in Callers :
         (llm_calls'[c] = llm_calls[c] + 1 /\ h_free'[c] # NoTime)
         => /\ MemoryThresholds[llm_model'[c]] <= h_free'[c]
            /\ \A m \in Models :
                  MemoryThresholds[m] <= h_free'[c]
                  => MemoryThresholds[m] <= MemoryThresholds[llm_model'[c]]
            /\ h_loads' # h_loads => current_model # llm_model'[c]]_vars

\* C34: no two calls are inside load_model for the same model at the same
\* time, a call that went through load_model ends with that model current
\* and loaded, and a switch to the current model starts no load and no
\* unload.
C34_SwitchIdempotent ==
    [][/\ \A c, d \in Callers :
            (c # d /\ llm_pc'[c] = "pull" /\ llm_pc'[d] = "pull")
            => llm_model'[c] # llm_model'[d]
       /\ \A c \in Callers :
            (llm_pc[c] = "pull" /\ llm_pc'[c] = "idle"
               /\ restarts' = restarts)
            => (current_model' = llm_model[c] /\ is_loaded')
       /\ \A c \in Callers :
            (llm_calls'[c] = llm_calls[c] + 1
               /\ current_model = llm_model'[c])
            => (h_loads' = h_loads /\ h_unloads' = h_unloads)]_vars

\* C35: every stage listed in completed_modules of a stored checkpoint has an
\* entry in that checkpoint's results_cache. The cache gets an entry exactly
\* when a stage returns (in this run, or in an earlier one whose checkpoint
\* was loaded), so a listed stage without an entry is a stage that raised or
\* never ran and is reported as completed.
C35_CompletedStagesReturned ==
    \A s \in Scans : \A cp \in StoredCheckpoints(s) :
        \A k \in 1..Len(cp.completed_modules) :
            cp.completed_modules[k] \in DOMAIN cp.results_cache

\* C36: a call of update_system_state leaves every field that its state_data
\* does not name as get_system_state reported it before the call's write: a
\* call that gives the network status only leaves the tunnel URL, a call that
\* gives the tunnel URL only leaves the network status.
C36_UnnamedFieldsKept ==
    [][\A c \in Callers :
         ( /\ us_pc[c] = "write"
           /\ us_pc'[c] = "idle"
           /\ restarts' = restarts
           /\ GetSystemState(system_state) # << >> )
         => /\ us_data[c].tunnel_url = Absent
                 => GetSystemState(system_state')[1].tunnel_url =
                       GetSystemState(system_state)[1].tunnel_url
            /\ us_data[c].network_status = Absent
                 => GetSystemState(system_state')[1].network_status =
                       GetSystemState(system_state)[1].network_status]_vars

\* C37: the child of every run that has spawned it and has not returned is
\* in active_processes, whether the run was given a task_id or not, and no
\* run that has returned is in active_processes.
C37_ChildRegisteredWhileRunning ==
    \A r \in Runs :
        /\ run_pc[r] \in {"read", "hold"} => r \in active_processes
        /\ run_pc[r] = "done" => r \notin active_processes

\* C38: every scan in the paused map is in the active map, and a scan whose
\* execution has ended completed or failed, or that the worker dropped as
\* cancelled, is in neither map.
C38_PausedWithinActive ==
    /\ paused_tasks \subseteq active_tasks
    /\ \A s \in Scans :
          ( /\ s \notin h_in_exec
            /\ ~IsQueued(s)
            /\ task_status[s] \in Terminal \cup {"cancelled"} )
          => s \notin active_tasks \cup paused_tasks

\* C39: a scan that finished or failed while paused and has not been resumed
\* does not hold the worker: when another scan waits in the queue, neither
\* paused nor cancelled, and no system-wide pause is in force, the worker at
\* the top of its loop finds the pause event set. (A worker that finds it
\* clear takes no further step until some resume request arrives.)
C39_FinishedPausedScanFreesWorker ==
    \A a \in Scans :
        ( /\ a \in paused_tasks
          /\ a \notin h_in_exec
          /\ task_status[a] \in Terminal
          /\ ~h_system_paused
          /\ wpc = "loop"
          /\ \E s \in Scans \ paused_tasks :
                IsQueued(s) /\ task_status[s] = "pending" )
        => pause_event

\* C40: once stop() was called on the engine, _stopped stays set whatever
\* pause() and resume() calls follow, the engine begins no further stage, a
\* wait for resume can end and ends by leaving the loop, and run returns
\* with the state file as it was.
C40_EngineStopIrreversible ==
    /\ [][(eng_stopped /\ wpc \in EngineRunning)
            => /\ eng_stopped'
               /\ ~StageBegins(wtask)
               /\ (wpc = "wait_resume" /\ wpc' # wpc)
                     => wpc' = "exec_completed"
               /\ wpc' = "exec_completed" => state_file' = state_file]_vars
    /\ [](eng_stopped /\ wpc = "wait_resume" => ENABLED EngineWaitEnds)

\* The engine was stopped, pause() and resume() were both called after that,
\* and run has returned with the checkpoint of the first stage still stored.
C40_Witness ==
    /\ eng_stopped
    /\ h_after_stop = {"pause", "resume"}
    /\ wpc = "exec_completed"
    /\ state_file[wtask] # << >>

====
